---- MODULE Spec2Model ----
(***************************************************************************)
(* State-machine model of src/mysql_mcp_server/server.py: the FastAPI      *)
(* handlers list_resources, read_resource and call_tool, the helpers       *)
(* get_db_config and query_claude, and the MySQL session each handler      *)
(* opens with two nested with-statements (connection, then cursor).        *)
(*                                                                         *)
(* SQL texts are sequences of one-character strings, so that str.strip,    *)
(* str.upper and str.startswith are computed character by character.       *)
(* Response texts are TLA+ strings built with \o, as "\n".join and         *)
(* ",".join build them.                                                    *)
(***************************************************************************)
EXTENDS Integers, Sequences, FiniteSets, TLC

VARIABLES env, db, req, res

vars == <<env, db, req, res>>

-----------------------------------------------------------------------------
(* Bounds of the model. *)

\* longest run of whitespace put in front of a query text
MaxPad == 1
\* primary keys of the rows of table users are drawn from 1..MaxId
MaxId == 2

-----------------------------------------------------------------------------
(* Python values: None, str, int.  A record per type, so that values of     *)
(* different types can sit in one row.                                     *)

None == [t |-> "null"]
StrV(s) == [t |-> "str", s |-> s]
IntV(n) == [t |-> "int", n |-> n]
\* a str held as a sequence of characters (the SQL texts)
CharsV(c) == [t |-> "chars", c |-> c]

\* str(v), as map(str, row) applies it
Str(v) ==
    IF v.t = "null" THEN "None"
    ELSE IF v.t = "int" THEN ToString(v.n)
    ELSE v.s

\* bool(v): None and the empty string are falsy
Truthy(v) ==
    IF v.t = "null" THEN FALSE
    ELSE IF v.t = "str" THEN v.s # ""
    ELSE IF v.t = "chars" THEN v.c # <<>>
    ELSE v.n # 0

\* all([...])
AllTruthy(vs) == \A i \in 1..Len(vs) : Truthy(vs[i])

\* {}
EmptyDict == [k \in {} |-> None]

\* dict.get(key), default None
DictGet(d, k) == IF k \in DOMAIN d THEN d[k] ELSE None

-----------------------------------------------------------------------------
(* str methods on sequences of characters. *)

LowerAlpha == <<"a", "b", "c", "d", "e", "f", "g", "h", "i", "j", "k", "l", "m",
                "n", "o", "p", "q", "r", "s", "t", "u", "v", "w", "x", "y", "z">>
UpperAlpha == <<"A", "B", "C", "D", "E", "F", "G", "H", "I", "J", "K", "L", "M",
                "N", "O", "P", "Q", "R", "S", "T", "U", "V", "W", "X", "Y", "Z">>

\* the characters str.strip() removes
Whitespace == {" ", "\t", "\n", "\r", "\f"}

UpperChar(c) ==
    IF \E i \in 1..Len(LowerAlpha) : LowerAlpha[i] = c
    THEN UpperAlpha[CHOOSE i \in 1..Len(LowerAlpha) : LowerAlpha[i] = c]
    ELSE c

\* s.upper()
upper(s) == [i \in 1..Len(s) |-> UpperChar(s[i])]

RECURSIVE lstrip(_)
lstrip(s) ==
    IF s # <<>> /\ Head(s) \in Whitespace THEN lstrip(Tail(s)) ELSE s

RECURSIVE rstrip(_)
rstrip(s) ==
    IF s # <<>> /\ s[Len(s)] \in Whitespace
    THEN rstrip(SubSeq(s, 1, Len(s) - 1))
    ELSE s

\* s.strip()
strip(s) == rstrip(lstrip(s))

\* s.startswith(p)
startswith(s, p) == Len(s) >= Len(p) /\ SubSeq(s, 1, Len(p)) = p

\* sep.join(items), items a sequence of strings
RECURSIVE join(_, _)
join(sep, items) ==
    IF items = <<>> THEN ""
    ELSE IF Len(items) = 1 THEN items[1]
    ELSE items[1] \o sep \o join(sep, Tail(items))


-----------------------------------------------------------------------------
(* Exceptions.  mysql.connector.Error is the base class of every error the *)
(* driver reports; `except Error` catches exactly these.                   *)

NoExc == [type |-> "none", msg |-> ""]
Exc(type, msg) == [type |-> type, msg |-> msg]

MySQLErrors ==
    {"InterfaceError", "OperationalError", "ProgrammingError",
     "IntegrityError", "InternalError"}

\* C2 mutant: an except clause that names the statement errors only
IsError_StatementOnly(e) == e.type \in {"ProgrammingError", "IntegrityError"}

\* isinstance(e, mysql.connector.Error)
IsError(e) == e.type \in MySQLErrors

-----------------------------------------------------------------------------
(* get_db_config: the three required settings are read from the process    *)
(* environment at every call.                                              *)

MissingConfigMsg == "Missing required database configuration"

get_db_config(environ) ==
    LET config == [user     |-> DictGet(environ, "MYSQL_USER"),
                   password |-> DictGet(environ, "MYSQL_PASSWORD"),
                   database |-> DictGet(environ, "MYSQL_DATABASE")]
    IN  IF ~AllTruthy(<<config.user, config.password, config.database>>)
        THEN [exc |-> Exc("ValueError", MissingConfigMsg), config |-> config]
        ELSE [exc |-> NoExc, config |-> config]

-----------------------------------------------------------------------------
(* query_claude: one HTTP POST of the query text.  `http` is what          *)
(* requests.post does: it raises, or it returns a response.                *)

HttpRaise == [kind |-> "raise", status_code |-> 0, text |-> "",
              json |-> [ok |-> FALSE, obj |-> EmptyDict]]
HttpResponse(code, text, ok, obj) ==
    [kind |-> "response", status_code |-> code, text |-> text,
     json |-> [ok |-> ok, obj |-> obj]]

StatusOK == 200

\* the behaviours of the remote service the model draws from
HttpOutcomes ==
    {HttpRaise,
     HttpResponse(StatusOK, "{\"response\": \"looks fine\"}", TRUE,
                  [response |-> "looks fine"]),
     HttpResponse(StatusOK, "{}", TRUE, EmptyDict),
     HttpResponse(StatusOK, "<html>", FALSE, EmptyDict),
     HttpResponse(500, "Internal Server Error", FALSE, EmptyDict)}

query_claude(input_text, http) ==
    IF http.kind = "raise"
    THEN [exc |-> Exc("requests.ConnectionError", "connection failed"), value |-> ""]
    ELSE IF http.status_code = StatusOK
         THEN IF ~http.json.ok
              THEN [exc |-> Exc("JSONDecodeError", "Expecting value"), value |-> ""]
              ELSE [exc |-> NoExc,
                    value |-> IF "response" \in DOMAIN http.json.obj
                              THEN http.json.obj["response"] ELSE ""]
         ELSE [exc |-> NoExc,
               value |-> "Error: " \o ToString(http.status_code) \o " - " \o http.text]

-----------------------------------------------------------------------------
(* The MySQL server behind cursor.execute.  The database holds table users  *)
(* (id primary key, name), the empty table orders (id) and table t (x).    *)
(* A statement is recognised irrespective of letter case and surrounding   *)
(* whitespace.                                                             *)

SqlShowTables == <<"S", "H", "O", "W", " ", "T", "A", "B", "L", "E", "S">>
SqlSelectUsers == <<"S", "E", "L", "E", "C", "T", " ", "*", " ", "F", "R", "O", "M", " ", "U", "S", "E", "R", "S">>
SqlSelectOrders == <<"S", "E", "L", "E", "C", "T", " ", "*", " ", "F", "R", "O", "M", " ", "O", "R", "D", "E", "R", "S">>
SqlLimit100 == <<" ", "L", "I", "M", "I", "T", " ", "1", "0", "0">>
SqlDelete == <<"D", "E", "L", "E", "T", "E", " ", "F", "R", "O", "M", " ", "U", "S", "E", "R", "S", " ", "W", "H", "E", "R", "E", " ", "I", "D", "=", "1">>
SqlInsert == <<"I", "N", "S", "E", "R", "T", " ", "I", "N", "T", "O", " ", "U", "S", "E", "R", "S", " ", "V", "A", "L", "U", "E", "S", " ", "(", "1", ",", "'", "X", "'", ")">>
SqlSelectT == <<"S", "E", "L", "E", "C", "T", " ", "*", " ", "F", "R", "O", "M", " ", "T">>
SqlUpdate == <<"U", "P", "D", "A", "T", "E", " ", "T", " ", "S", "E", "T", " ", "X", "=", "1">>
SqlShowColumns == <<"S", "H", "O", "W", " ", "C", "O", "L", "U", "M", "N", "S", " ", "F", "R", "O", "M", " ", "U", "S", "E", "R", "S">>

UsersColumns == <<"id", "name">>
OrdersColumns == <<"id">>
TColumns == <<"x">>
TableNames == <<"orders", "t", "users">>

UserRow(id, name) == <<IntV(id), name>>

\* what the server answers: an error, or a result set / row count, and the
\* session's uncommitted view of the data
Answer(exc, hasResult, columns, rows, rowcount, work) ==
    [exc |-> exc, hasResult |-> hasResult, columns |-> columns, rows |-> rows,
     rowcount |-> rowcount, work |-> work]

NoRowcount == 0 - 1

ServerExecute(data, sql, database) ==
    LET stmt == upper(strip(sql))
        HasId1(r) == r[1] = IntV(1)
        NotId1(r) == r[1] # IntV(1)
        NotOne(r) == r[1] # IntV(1)
    IN  IF stmt = SqlShowTables
        THEN Answer(NoExc, TRUE, <<"Tables_in_" \o database>>,
                    [i \in 1..Len(TableNames) |-> <<StrV(TableNames[i])>>],
                    NoRowcount, data)
        ELSE IF stmt \in {SqlSelectUsers, SqlSelectUsers \o SqlLimit100}
        THEN Answer(NoExc, TRUE, UsersColumns, data.users, NoRowcount, data)
        ELSE IF stmt \in {SqlSelectOrders, SqlSelectOrders \o SqlLimit100}
        THEN Answer(NoExc, TRUE, OrdersColumns, <<>>, NoRowcount, data)
        ELSE IF stmt \in {SqlSelectT, SqlSelectT \o SqlLimit100}
        THEN Answer(NoExc, TRUE, TColumns, data.t, NoRowcount, data)
        ELSE IF stmt = SqlUpdate
        THEN Answer(NoExc, FALSE, <<>>, <<>>, Len(SelectSeq(data.t, NotOne)),
                    [data EXCEPT !.t = [i \in 1..Len(data.t) |-> <<IntV(1)>>]])
        ELSE IF stmt = SqlShowColumns
        THEN Answer(NoExc, TRUE, <<"Field", "Type">>,
                    <<<<StrV("id"), StrV("int")>>, <<StrV("name"), StrV("varchar(8)")>>>>,
                    NoRowcount, data)
        ELSE IF stmt = SqlDelete
        THEN Answer(NoExc, FALSE, <<>>, <<>>,
                    Len(SelectSeq(data.users, HasId1)),
                    [data EXCEPT !.users = SelectSeq(data.users, NotId1)])
        ELSE IF stmt = SqlInsert
        THEN IF \E i \in 1..Len(data.users) : HasId1(data.users[i])
             THEN Answer(Exc("IntegrityError", "1062 (23000): Duplicate entry '1' for key 'PRIMARY'"),
                         FALSE, <<>>, <<>>, NoRowcount, data)
             ELSE Answer(NoExc, FALSE, <<>>, <<>>, 1,
                         [data EXCEPT !.users = <<UserRow(1, StrV("x"))>> \o @])
        ELSE Answer(Exc("ProgrammingError", "1064 (42000): You have an error in your SQL syntax"),
                    FALSE, <<>>, <<>>, NoRowcount, data)

\* faults of the connection that strike independently of the statement
Faults == {"none", "connect", "cursor", "execute", "fetch", "commit", "abort"}

\* connect(): the database is unreachable under fault "connect"
connect(fault) ==
    IF fault = "connect"
    THEN Exc("InterfaceError", "2003: Can't connect to MySQL server")
    ELSE NoExc

\* conn.cursor()
cursor(fault) ==
    IF fault = "cursor"
    THEN Exc("OperationalError", "2055: Lost connection to MySQL server")
    ELSE NoExc

\* cursor.execute(sql)
execute(data, sql, database, fault) ==
    IF fault = "execute"
    THEN Answer(Exc("OperationalError", "2013: Lost connection to MySQL server during query"),
                FALSE, <<>>, <<>>, NoRowcount, data)
    ELSE IF fault = "abort"
    THEN Answer(Exc("KeyboardInterrupt", ""), FALSE, <<>>, <<>>, NoRowcount, data)
    ELSE ServerExecute(data, sql, database)

\* cursor.fetchall()
fetchall(answer, fault) ==
    IF fault = "fetch"
    THEN [exc |-> Exc("OperationalError", "2013: Lost connection to MySQL server during query"),
          rows |-> <<>>]
    ELSE IF ~answer.hasResult
    THEN [exc |-> Exc("InterfaceError", "No result set to fetch from"), rows |-> <<>>]
    ELSE [exc |-> NoExc, rows |-> answer.rows]

\* conn.commit(): refused while a result set of the session is unread
commit(answer, fault) ==
    IF fault = "commit"
    THEN Exc("OperationalError", "2013: Lost connection to MySQL server during query")
    ELSE IF answer.hasResult
    THEN Exc("InternalError", "Unread result found")
    ELSE NoExc

-----------------------------------------------------------------------------
(* What a handler run leaves behind: how it ended (returned a value or     *)
(* raised), the state of the connection and cursor it opened, the I/O it   *)
(* did in order, and the data as committed.                                *)

NoValue == [kind |-> "none"]
ResourceList(items) == [kind |-> "resources", items |-> items]
StrValue(text) == [kind |-> "str", text |-> text]
ContentList(items) == [kind |-> "contents", items |-> items]

TextContent(text) == [type |-> "text", text |-> text]

Resource(table) ==
    [uri |-> "mysql://" \o table \o "/data",
     name |-> "Table: " \o table,
     mimeType |-> "text/plain",
     description |-> "Data in table: " \o table]

Fresh(data) ==
    [status |-> "running", value |-> NoValue, exc |-> NoExc,
     conn |-> "none", cursor |-> "none", events |-> <<>>,
     executed |-> <<>>, branch |-> "none", committed |-> FALSE,
     advice |-> "", caught |-> NoExc, fault |-> "none", db0 |-> data, db |-> data]

Return(r, value) == [r EXCEPT !.status = "returned", !.value = value]
Raise(r, exc) == [r EXCEPT !.status = "raised", !.exc = exc]
Event(r, e) == [r EXCEPT !.events = Append(@, e)]

\* the connection attempt: from here on the driver behaves as `fault` says
Connecting(r, fault) == [Event(r, "connect") EXCEPT !.fault = fault]

\* entering `with connect(...) as conn:`
Connected(r) == [r EXCEPT !.conn = "open"]

\* entering `with conn.cursor() as cursor:`
Opened(r) == [Event(r, "cursor") EXCEPT !.cursor = "open"]

\* C1 mutant: cleanup written after the body instead of a with-statement, so
\* that it is skipped when the body raises
WithExit_OnReturnOnly(r) ==
    IF r.status # "returned" THEN r
    ELSE LET c == IF r.cursor = "open"
                  THEN [Event(r, "cursor.close") EXCEPT !.cursor = "closed"]
                  ELSE r
         IN  IF c.conn = "open"
             THEN [Event(c, "conn.close") EXCEPT !.conn = "closed"]
             ELSE c

\* leaving the with-statements, by return or by exception: the cursor's
\* __exit__ (when the cursor was opened) and then the connection's __exit__
\* (when the connection was opened) close them; what the session did not
\* commit is rolled back with the connection
WithExit(r) ==
    LET c == IF r.cursor = "open"
             THEN [Event(r, "cursor.close") EXCEPT !.cursor = "closed"]
             ELSE r
    IN  IF c.conn = "open"
        THEN [Event(c, "conn.close") EXCEPT !.conn = "closed"]
        ELSE c

\* C9 mutant: every line, the last included, ended by a newline
FormatRows_TrailingNewline(columns, rows) ==
    LET Line(row) == join(",", [i \in 1..Len(row) |-> Str(row[i])])
        result == [i \in 1..Len(rows) |-> Line(rows[i])]
    IN  join("\n", <<join(",", columns)>> \o result) \o "\n"

\* the result text of read_resource and of the SELECT branch of call_tool
FormatRows(columns, rows) ==
    LET Line(row) == join(",", [i \in 1..Len(row) |-> Str(row[i])])
        result == [i \in 1..Len(rows) |-> Line(rows[i])]
    IN  join("\n", <<join(",", columns)>> \o result)

-----------------------------------------------------------------------------
(* list_resources *)

list_resources_body(r0, config, fault) ==
    IF connect(fault) # NoExc
    THEN Raise(Connecting(r0, fault), connect(fault))
    ELSE IF cursor(fault) # NoExc
    THEN Raise(Connected(Connecting(r0, fault)), cursor(fault))
    ELSE
    LET r1 == Opened(Connected(Connecting(r0, fault)))
        sql == SqlShowTables
        ans == execute(r1.db0, sql, config.database.s, fault)
        r2 == [Event(r1, "execute") EXCEPT !.executed = sql]
        tables == fetchall(ans, fault)
        Name(table) == Resource(Str(table[1]))
    IN  IF ans.exc # NoExc THEN Raise(r2, ans.exc)
        ELSE IF tables.exc # NoExc THEN Raise(Event(r2, "fetchall"), tables.exc)
        ELSE Return(Event(r2, "fetchall"), ResourceList([i \in 1..Len(tables.rows) |-> Name(tables.rows[i])]))

\* except Error as e: log, return []
list_resources_except(r) ==
    IF r.status = "raised" /\ IsError(r.exc)
    THEN Return([r EXCEPT !.exc = NoExc, !.caught = r.exc], ResourceList(<<>>))
    ELSE r

list_resources(environ, data, fault) ==
    LET cfg == get_db_config(environ)
        r0 == Fresh(data)
    IN  IF cfg.exc # NoExc THEN Raise(r0, cfg.exc)
        ELSE list_resources_except(WithExit(list_resources_body(r0, cfg.config, fault)))

-----------------------------------------------------------------------------
(* read_resource *)

SelectFrom == <<"S", "E", "L", "E", "C", "T", " ", "*", " ", "F", "R", "O", "M", " ">>
Limit100 == <<" ", "L", "I", "M", "I", "T", " ", "1", "0", "0">>

read_resource_body(r0, config, table_name, fault) ==
    IF connect(fault) # NoExc
    THEN Raise(Connecting(r0, fault), connect(fault))
    ELSE IF cursor(fault) # NoExc
    THEN Raise(Connected(Connecting(r0, fault)), cursor(fault))
    ELSE
    LET r1 == Opened(Connected(Connecting(r0, fault)))
        sql == SelectFrom \o table_name \o Limit100
        ans == execute(r1.db0, sql, config.database.s, fault)
        r2 == [Event(r1, "execute") EXCEPT !.executed = sql]
        rows == fetchall(ans, fault)
    IN  IF ans.exc # NoExc THEN Raise(r2, ans.exc)
        ELSE IF rows.exc # NoExc THEN Raise(Event(r2, "fetchall"), rows.exc)
        ELSE Return(Event(r2, "fetchall"),
                    StrValue(FormatRows(ans.columns, rows.rows)))

\* except Error as e: log, raise RuntimeError(f"Database error: {str(e)}")
read_resource_except(r) ==
    IF r.status = "raised" /\ IsError(r.exc)
    THEN Raise([r EXCEPT !.caught = r.exc],
               Exc("RuntimeError", "Database error: " \o r.exc.msg))
    ELSE r

read_resource(environ, data, table_name, fault) ==
    LET cfg == get_db_config(environ)
        r0 == Fresh(data)
    IN  IF cfg.exc # NoExc THEN Raise(r0, cfg.exc)
        ELSE read_resource_except(WithExit(read_resource_body(r0, cfg.config, table_name, fault)))

-----------------------------------------------------------------------------
(* call_tool *)

SHOW_TABLES == <<"S", "H", "O", "W", " ", "T", "A", "B", "L", "E", "S">>
SELECT == <<"S", "E", "L", "E", "C", "T">>

\* C8 mutant: the prefix tests without strip()
Branch_NoStrip(query) ==
    IF startswith(upper(query), SHOW_TABLES) THEN "ShowTables"
    ELSE IF startswith(upper(query), SELECT) THEN "Select"
    ELSE "Other"

\* the if / elif / else on the query text
Branch(query) ==
    IF startswith(upper(strip(query)), SHOW_TABLES) THEN "ShowTables"
    ELSE IF startswith(upper(strip(query)), SELECT) THEN "Select"
    ELSE "Other"

\* C5 mutant: the else branch without conn.commit()
Committed_Lost(r, ans) == r

\* C10 mutant: the commit made to depend on what the advisory call said
Committed_IfApproved(r, ans) ==
    IF r.advice = "" THEN [Event(r, "commit") EXCEPT !.committed = TRUE, !.db = ans.work]
    ELSE r

\* conn.commit() returned: what the session changed is now the data every
\* later session sees
Committed(r, ans) == [Event(r, "commit") EXCEPT !.committed = TRUE, !.db = ans.work]

call_tool_body(r0, config, query, fault) ==
    IF connect(fault) # NoExc
    THEN Raise(Connecting(r0, fault), connect(fault))
    ELSE IF cursor(fault) # NoExc
    THEN Raise(Connected(Connecting(r0, fault)), cursor(fault))
    ELSE
    LET r1 == Opened(Connected(Connecting(r0, fault)))
        ans == execute(r1.db0, query, config.database.s, fault)
        r2 == [Event(r1, "execute") EXCEPT !.executed = query]
        r3 == [r2 EXCEPT !.branch = Branch(query)]
        rows == fetchall(ans, fault)
        First(table) == table[1].s
    IN  IF ans.exc # NoExc THEN Raise(r2, ans.exc)
        ELSE IF r3.branch = "ShowTables"
        THEN IF rows.exc # NoExc THEN Raise(Event(r3, "fetchall"), rows.exc)
             ELSE Return(Event(r3, "fetchall"),
                         ContentList(<<TextContent(
                             join("\n", <<"Tables_in_" \o config.database.s>>
                                        \o [i \in 1..Len(rows.rows) |-> First(rows.rows[i])]))>>))
        ELSE IF r3.branch = "Select"
        THEN IF ~ans.hasResult THEN Raise(r3, Exc("TypeError", "'NoneType' object is not iterable"))
             ELSE IF rows.exc # NoExc THEN Raise(Event(r3, "fetchall"), rows.exc)
             ELSE Return(Event(r3, "fetchall"),
                         ContentList(<<TextContent(FormatRows(ans.columns, rows.rows))>>))
        ELSE IF commit(ans, fault) # NoExc
             THEN Raise(Event(r3, "commit"), commit(ans, fault))
             ELSE Return(Committed(r3, ans),
                         ContentList(<<TextContent(
                             "Query executed successfully. Rows affected: "
                             \o ToString(ans.rowcount))>>))

\* C7 mutant: the except clause of read_resource pasted into call_tool
call_tool_except_Reraise(r) ==
    IF r.status = "raised" /\ IsError(r.exc)
    THEN Raise([r EXCEPT !.caught = r.exc],
               Exc("RuntimeError", "Database error: " \o r.exc.msg))
    ELSE r

\* except Error as e: log, return the error as a TextContent
call_tool_except(r) ==
    IF r.status = "raised" /\ IsError(r.exc)
    THEN Return([r EXCEPT !.exc = NoExc, !.caught = r.exc],
                ContentList(<<TextContent("Error executing query: " \o r.exc.msg)>>))
    ELSE r

\* C4 mutant: `if query is None`
QueryMissing_IsNone(query) == query.t = "null"

\* if not query
QueryMissing(query) == ~Truthy(query)

call_tool(environ, data, arguments, http, fault) ==
    LET cfg == get_db_config(environ)
        query == DictGet(arguments, "query")
        r0 == Fresh(data)
        claude_response == query_claude(query.c, http)
        r1 == [Event(r0, "advisory") EXCEPT !.advice = claude_response.value]
    IN  IF cfg.exc # NoExc THEN Raise(r0, cfg.exc)
        ELSE IF QueryMissing(query) THEN Raise(r0, Exc("ValueError", "Query is required"))
        ELSE IF claude_response.exc # NoExc THEN Raise(Event(r0, "advisory"), claude_response.exc)
        ELSE call_tool_except(WithExit(call_tool_body(r1, cfg.config, query.c, fault)))

-----------------------------------------------------------------------------
(* The inputs the model draws from. *)

\* the process environment, fixed when the process starts
Environments ==
    {[MYSQL_USER |-> StrV("root"), MYSQL_PASSWORD |-> StrV("secret"), MYSQL_DATABASE |-> StrV("shop")],
     [MYSQL_USER |-> None, MYSQL_PASSWORD |-> StrV("secret"), MYSQL_DATABASE |-> StrV("shop")],
     [MYSQL_USER |-> StrV("root"), MYSQL_PASSWORD |-> StrV(""), MYSQL_DATABASE |-> StrV("shop")],
     [MYSQL_USER |-> StrV("root"), MYSQL_PASSWORD |-> StrV("secret"), MYSQL_DATABASE |-> None]}

\* the contents of the database.  Table users: rows in primary-key order,
\* at most one row per id in 1..MaxId, name 'x' or NULL.  Table t: one row,
\* x = 0 or x = 1
Cells ==
    {[present |-> FALSE, name |-> None],
     [present |-> TRUE, name |-> None],
     [present |-> TRUE, name |-> StrV("x")]}

RowsOf(f) ==
    LET Present(i) == f[i].present
        ids == SelectSeq([i \in 1..MaxId |-> i], Present)
    IN  [k \in 1..Len(ids) |-> UserRow(ids[k], f[ids[k]].name)]

Databases ==
    {[users |-> RowsOf(f), t |-> <<<<IntV(x)>>>>] : f \in [1..MaxId -> Cells], x \in {0, 1}}

\* query texts as clients send them
QueryBases ==
    {<<"s", "h", "o", "w", " ", "t", "a", "b", "l", "e", "s">>,
     <<"S", "H", "O", "W", " ", "T", "A", "B", "L", "E", "S">>,
     <<"s", "e", "l", "e", "c", "t", " ", "*", " ", "f", "r", "o", "m", " ", "u", "s", "e", "r", "s">>,
     <<"S", "e", "l", "e", "c", "t", " ", "*", " ", "F", "r", "o", "m", " ", "U", "s", "e", "r", "s">>,
     <<"S", "E", "L", "E", "C", "T", " ", "*", " ", "F", "R", "O", "M", " ", "o", "r", "d", "e", "r", "s">>,
     <<"D", "E", "L", "E", "T", "E", " ", "F", "R", "O", "M", " ", "u", "s", "e", "r", "s", " ", "W", "H", "E", "R", "E", " ", "i", "d", "=", "1">>,
     <<"I", "N", "S", "E", "R", "T", " ", "I", "N", "T", "O", " ", "u", "s", "e", "r", "s", " ", "V", "A", "L", "U", "E", "S", " ", "(", "1", ",", "'", "x", "'", ")">>,
     <<"S", "H", "O", "W", " ", "C", "O", "L", "U", "M", "N", "S", " ", "F", "R", "O", "M", " ", "u", "s", "e", "r", "s">>,
     <<"u", "p", "d", "a", "t", "e", " ", "t", " ", "s", "e", "t", " ", "x", "=", "1">>,
     <<" ", " ", "s", "e", "l", "e", "c", "t", " ", "*", " ", "f", "r", "o", "m", " ", "t">>,
     <<"S", "H", "O", "W", " ", "T", "A", "B", "L", "E">>,
     <<"s", "e", "l", "e", "c", "t", "e", "d">>}

PadChars == {" ", "\n"}
Pads == UNION {[1..k -> PadChars] : k \in 0..MaxPad}

Queries ==
    {pad \o q : pad \in Pads, q \in QueryBases}
    \cup {q \o <<" ">> : q \in {SqlShowTables, SqlDelete}}
    \cup {<<" ">>}

\* the JSON body of POST /tool
Arguments ==
    {EmptyDict, [query |-> None], [query |-> CharsV(<<>>)]}
    \cup {[query |-> CharsV(q)] : q \in Queries}

\* the path parameter of GET /resource/{table_name}
TableParams == {<<"u", "s", "e", "r", "s">>, <<"o", "r", "d", "e", "r", "s">>, <<"t">>}

-----------------------------------------------------------------------------
(* The state machine.  The handlers never await, so the event loop runs     *)
(* one handler at a time, from the request to its response.                *)

Idle == [handler |-> "none", table_name |-> <<>>, arguments |-> EmptyDict]

Init ==
    /\ env \in Environments
    /\ db \in Databases
    /\ req = Idle
    /\ res = Fresh(db)

\* GET /resources
ListResources ==
    /\ req = Idle
    /\ \E fault \in Faults \ {"commit"} :
         LET r == list_resources(env, db, fault)
         IN  /\ req' = [Idle EXCEPT !.handler = "list_resources"]
             /\ res' = r
             /\ db' = r.db
    /\ UNCHANGED env

\* GET /resource/{table_name}
ReadResource ==
    /\ req = Idle
    /\ \E table_name \in TableParams, fault \in Faults \ {"commit"} :
         LET r == read_resource(env, db, table_name, fault)
         IN  /\ req' = [Idle EXCEPT !.handler = "read_resource", !.table_name = table_name]
             /\ res' = r
             /\ db' = r.db
    /\ UNCHANGED env

\* POST /tool
CallTool ==
    /\ req = Idle
    /\ \E arguments \in Arguments, http \in HttpOutcomes, fault \in Faults :
         LET r == call_tool(env, db, arguments, http, fault)
         IN  /\ req' = [Idle EXCEPT !.handler = "call_tool", !.arguments = arguments]
             /\ res' = r
             /\ db' = r.db
    /\ UNCHANGED env

\* the response (or the fault) goes out and the request is over
Respond ==
    /\ req # Idle
    /\ req' = Idle
    /\ res' = Fresh(db)
    /\ UNCHANGED <<env, db>>

Next == ListResources \/ ReadResource \/ CallTool \/ Respond

Spec == Init /\ [][Next]_vars

-----------------------------------------------------------------------------
(* Vocabulary of the properties. *)

Handlers == {"list_resources", "read_resource", "call_tool"}

\* a handler has finished and its response is not yet sent
Finished == req.handler \in Handlers

\* the I/O step e happened in the finished request
Has(e) == \E i \in 1..Len(res.events) : res.events[i] = e

\* step a happened, and before step b
Before(a, b) ==
    \E i, j \in 1..Len(res.events) :
        i < j /\ res.events[i] = a /\ res.events[j] = b

ConfigValid == get_db_config(env).exc = NoExc

\* the "query" argument of the finished request
QueryArg == DictGet(req.arguments, "query")

\* the connection attempt was made and failed
ConnectFailed == Has("connect") /\ res.fault = "connect"

\* the connection attempt was made and succeeded
ConnectSucceeded == Has("connect") /\ res.fault # "connect"

DatabaseName == get_db_config(env).config.database.s

UsersParam == <<"u", "s", "e", "r", "s">>

-----------------------------------------------------------------------------
(* C1.  Every finished request that opened a connection has closed the     *)
(* connection and the cursor, whichever way the handler ended (return,      *)
(* driver error, any other exception), and closing is the last I/O it did:  *)
(* no finished request holds an open connection or cursor.                 *)

C1_SessionReleased ==
    Finished =>
        /\ res.conn # "open"
        /\ res.cursor # "open"
        /\ ConnectSucceeded =>
              /\ res.conn = "closed"
              /\ res.events[Len(res.events)] = "conn.close"
        /\ Has("cursor") =>
              /\ res.cursor = "closed"
              /\ Before("cursor.close", "conn.close")
              /\ res.events[Len(res.events) - 1] = "cursor.close"

\* a request torn down by an exception that is no driver error, session released
C1_Witness ==
    /\ req.handler = "call_tool"
    /\ res.status = "raised"
    /\ res.exc.type = "KeyboardInterrupt"
    /\ Has("execute")
    /\ res.conn = "closed"
    /\ res.cursor = "closed"

-----------------------------------------------------------------------------
(* C2.  As claimed: with a valid configuration and a failed connection      *)
(* attempt, every handler returns (an empty sequence or an error payload)   *)
(* and none raises.                                                        *)

C2_NoFaultWhenUnreachable ==
    (Finished /\ ConfigValid /\ ConnectFailed) =>
        /\ res.status = "returned"
        /\ req.handler = "list_resources" => res.value = ResourceList(<<>>)
        /\ req.handler # "list_resources" => res.value.kind \in {"str", "contents"}

(* C2, amended.  With a valid configuration and a failed connection        *)
(* attempt, list_resources returns the empty sequence, call_tool returns   *)
(* one TextContent "Error executing query: <driver message>", and          *)
(* read_resource raises RuntimeError "Database error: <driver message>".   *)

C2_UnreachableOutcomes ==
    (Finished /\ ConfigValid /\ ConnectFailed) =>
        /\ res.caught.type = "InterfaceError"
        /\ res.conn = "none"
        /\ req.handler = "list_resources" =>
              /\ res.status = "returned"
              /\ res.value = ResourceList(<<>>)
        /\ req.handler = "call_tool" =>
              /\ res.status = "returned"
              /\ res.value = ContentList(<<TextContent(
                     "Error executing query: " \o res.caught.msg)>>)
        /\ req.handler = "read_resource" =>
              /\ res.status = "raised"
              /\ res.exc = Exc("RuntimeError", "Database error: " \o res.caught.msg)

C2_Witness ==
    /\ req.handler = "read_resource"
    /\ ConfigValid
    /\ ConnectFailed
    /\ res.status = "raised"
    /\ res.exc.type = "RuntimeError"

-----------------------------------------------------------------------------
(* C3.  In call_tool with a non-empty query, no outcome of the advisory     *)
(* call is fatal: the request never ends with the advisory call's own       *)
(* exception, and once the advisory call was made the handler goes on to    *)
(* the database and returns one TextContent.                               *)

AdvisoryExceptions == {"requests.ConnectionError", "JSONDecodeError"}

C3_AdvisoryNeverFatal ==
    (req.handler = "call_tool" /\ ConfigValid /\ Truthy(QueryArg) /\ Has("advisory")) =>
        /\ ~(res.status = "raised" /\ res.exc.type \in AdvisoryExceptions)
        /\ Has("connect")

-----------------------------------------------------------------------------
(* C4.  call_tool with the "query" key missing, None or empty raises        *)
(* ValueError before any I/O: no advisory call, no connection, no           *)
(* statement executed, nothing committed.                                  *)

C4_ValidationBeforeIO ==
    (req.handler = "call_tool" /\ ~Truthy(QueryArg)) =>
        /\ res.status = "raised"
        /\ res.exc.type = "ValueError"
        /\ ConfigValid => res.exc.msg = "Query is required"
        /\ res.events = <<>>
        /\ res.conn = "none"
        /\ res.cursor = "none"
        /\ res.executed = <<>>
        /\ db = res.db0

C4_Witness ==
    /\ req.handler = "call_tool"
    /\ req.arguments = EmptyDict
    /\ ConfigValid
    /\ res.status = "raised"
    /\ res.exc = Exc("ValueError", "Query is required")

-----------------------------------------------------------------------------
(* C5.  When call_tool takes the else branch (a statement that starts with *)
(* neither SHOW TABLES nor SELECT) and no driver error occurs, conn.commit  *)
(* runs before the session is closed and before the handler returns, the    *)
(* handler returns the single TextContent "Query executed successfully.     *)
(* Rows affected: n" with n the number of rows the statement changed, and   *)
(* the change is what a SELECT of a later request, on a new session, reads. *)

\* the rows of seq that are not in other
RowsNotIn(seq, other) ==
    LET Gone(r) == \A k \in 1..Len(other) : other[k] # r
    IN  Len(SelectSeq(seq, Gone))

\* number of rows that differ between two states of the data (rows removed,
\* inserted or, in the one-row table t, rewritten)
RowsChanged(before, after) ==
    RowsNotIn(before.users, after.users) + RowsNotIn(after.users, before.users)
    + RowsNotIn(before.t, after.t)

\* what a later request reads with SELECT * FROM <table>, through call_tool
\* and through read_resource
LaterSelect(table) ==
    call_tool(env, db, [query |-> CharsV(SelectFrom \o table)],
              HttpResponse(StatusOK, "{}", TRUE, EmptyDict), "none").value
LaterRead(table) ==
    read_resource(env, db, table, "none").value

C5_OtherCommits ==
    (req.handler = "call_tool" /\ res.branch = "Other"
        /\ res.status = "returned" /\ res.caught = NoExc) =>
        /\ res.committed
        /\ Before("execute", "commit")
        /\ Before("commit", "conn.close")
        /\ res.value = ContentList(<<TextContent(
               "Query executed successfully. Rows affected: "
               \o ToString(RowsChanged(res.db0, db)))>>)
        /\ db = ServerExecute(res.db0, res.executed, DatabaseName).work
        /\ LaterSelect(UsersParam) =
               ContentList(<<TextContent(FormatRows(UsersColumns, db.users))>>)
        /\ LaterRead(<<"t">>) = StrValue(FormatRows(TColumns, db.t))

\* DELETE FROM users WHERE id=1 against a matching row
C5_Witness ==
    /\ req.handler = "call_tool"
    /\ upper(strip(res.executed)) = SqlDelete
    /\ res.branch = "Other"
    /\ res.committed
    /\ res.value = ContentList(<<TextContent(
           "Query executed successfully. Rows affected: 1")>>)
    /\ Len(db.users) = Len(res.db0.users) - 1

-----------------------------------------------------------------------------
(* C6.  Missing required configuration stops the process before it serves  *)
(* a request: no handler run ends with the missing-configuration error.    *)

C6_NoPerRequestConfigError ==
    Finished => ~(res.status = "raised" /\ res.exc.msg = MissingConfigMsg)

-----------------------------------------------------------------------------
(* C7.  A driver error during the handler's query (execute, fetch or        *)
(* commit on an open connection) has the outcome the handler fixes:         *)
(* list_resources returns the empty sequence, read_resource raises          *)
(* RuntimeError carrying the driver message, call_tool returns one          *)
(* TextContent carrying the driver message, does not raise and commits      *)
(* nothing.                                                                *)

C7_ErrorPolicy ==
    (Finished /\ Has("execute") /\ res.caught # NoExc) =>
        /\ req.handler = "list_resources" =>
              /\ res.status = "returned"
              /\ res.exc = NoExc
              /\ res.value = ResourceList(<<>>)
        /\ req.handler = "read_resource" =>
              /\ res.status = "raised"
              /\ res.exc = Exc("RuntimeError", "Database error: " \o res.caught.msg)
        /\ req.handler = "call_tool" =>
              /\ res.status = "returned"
              /\ res.exc = NoExc
              /\ res.value = ContentList(<<TextContent(
                     "Error executing query: " \o res.caught.msg)>>)
              /\ ~res.committed
              /\ db = res.db0

\* a duplicate-key INSERT through call_tool
C7_Witness ==
    /\ req.handler = "call_tool"
    /\ res.caught.type = "IntegrityError"
    /\ res.status = "returned"
    /\ res.value.kind = "contents"

-----------------------------------------------------------------------------
(* C8.  The branch call_tool takes on a query text is the reference         *)
(* classification: drop leading and trailing whitespace, uppercase, then    *)
(* ShowTables if the text starts with SHOW TABLES, else Select if it starts *)
(* with SELECT, else Other.  "  select * from t" is Select, "show tables"   *)
(* is ShowTables, "update t set x=1" and "SHOW COLUMNS FROM users" are      *)
(* Other.                                                                  *)

RefTrim(q) ==
    LET solid == {i \in 1..Len(q) : q[i] \notin Whitespace}
        first == CHOOSE i \in solid : \A k \in solid : i <= k
        last == CHOOSE i \in solid : \A k \in solid : k <= i
    IN  IF solid = {} THEN <<>>
        ELSE [k \in 1..(last - first + 1) |-> q[first + k - 1]]

RefHasPrefix(q, p) ==
    /\ Len(p) <= Len(q)
    /\ \A i \in 1..Len(p) : q[i] = p[i]

RefClassify(q) ==
    LET trimmed == RefTrim(q)
        u == [i \in 1..Len(trimmed) |-> UpperChar(trimmed[i])]
        show == RefHasPrefix(u, <<"S", "H", "O", "W", " ", "T", "A", "B", "L", "E", "S">>)
        select == RefHasPrefix(u, <<"S", "E", "L", "E", "C", "T">>)
    IN  CASE show -> "ShowTables"
          [] ~show /\ select -> "Select"
          [] OTHER -> "Other"

ExampleSelect == <<" ", " ", "s", "e", "l", "e", "c", "t", " ", "*", " ", "f", "r", "o", "m", " ", "t">>
ExampleShowTables == <<"s", "h", "o", "w", " ", "t", "a", "b", "l", "e", "s">>
ExampleUpdate == <<"u", "p", "d", "a", "t", "e", " ", "t", " ", "s", "e", "t", " ", "x", "=", "1">>
ExampleShowColumns == <<"S", "H", "O", "W", " ", "C", "O", "L", "U", "M", "N", "S", " ", "F", "R", "O", "M", " ", "u", "s", "e", "r", "s">>

C8_Classification ==
    /\ (req.handler = "call_tool" /\ Truthy(QueryArg)) =>
           Branch(QueryArg.c) = RefClassify(QueryArg.c)
    /\ (req.handler = "call_tool" /\ res.branch # "none") =>
           /\ res.branch = RefClassify(res.executed)
           /\ res.executed = ExampleSelect => res.branch = "Select"
           /\ res.executed = ExampleShowTables => res.branch = "ShowTables"
           /\ res.executed = ExampleUpdate => res.branch = "Other"
           /\ res.executed = ExampleShowColumns => res.branch = "Other"

C8_Witness ==
    /\ req.handler = "call_tool"
    /\ res.executed = ExampleSelect
    /\ res.branch = "Select"
    /\ res.status = "returned"
    /\ res.caught = NoExc

-----------------------------------------------------------------------------
(* C9.  The text of read_resource and of the SELECT branch of call_tool is  *)
(* the header line (column names joined by ","), then one line per row in   *)
(* result order (str() of each value, NULL as "None", joined by ","), the   *)
(* lines joined by "\n", no trailing newline, nothing escaped.  Columns     *)
(* a, b with rows (1, x), (2, NULL) give "a,b\n1,x\n2,None"; no rows give   *)
(* the header line alone.                                                  *)

RefStr(v) ==
    CASE v.t = "null" -> "None"
      [] v.t = "int" -> ToString(v.n)
      [] v.t = "str" -> v.s

\* the fields of a line, built from its last field backwards
RECURSIVE RefLine(_)
RefLine(row) ==
    IF Len(row) = 1 THEN RefStr(row[1])
    ELSE RefLine(SubSeq(row, 1, Len(row) - 1)) \o "," \o RefStr(row[Len(row)])

RECURSIVE RefHeader(_)
RefHeader(columns) ==
    IF Len(columns) = 1 THEN columns[1]
    ELSE RefHeader(SubSeq(columns, 1, Len(columns) - 1)) \o "," \o columns[Len(columns)]

\* the text, built from its last line backwards
RECURSIVE RefFormat(_, _)
RefFormat(columns, rows) ==
    IF rows = <<>> THEN RefHeader(columns)
    ELSE RefFormat(columns, SubSeq(rows, 1, Len(rows) - 1))
         \o "\n" \o RefLine(rows[Len(rows)])

\* the text a finished read_resource or SELECT request returned
ReturnedText ==
    IF req.handler = "read_resource" THEN res.value.text ELSE res.value.items[1].text

C9_Format ==
    /\ FormatRows(<<"a", "b">>, <<<<IntV(1), StrV("x")>>, <<IntV(2), None>>>>)
           = "a,b\n1,x\n2,None"
    /\ (/\ req.handler = "read_resource" \/ (req.handler = "call_tool" /\ res.branch = "Select")
        /\ res.status = "returned"
        /\ res.caught = NoExc) =>
           LET ans == ServerExecute(res.db0, res.executed, DatabaseName)
           IN  /\ ReturnedText = RefFormat(ans.columns, ans.rows)
               /\ ans.rows = <<>> => ReturnedText = RefHeader(ans.columns)

C9_Witness ==
    /\ req.handler = "read_resource"
    /\ res.status = "returned"
    /\ res.value = StrValue("id,name\n1,x\n2,None")

-----------------------------------------------------------------------------
(* C10.  The string the advisory call returns has no effect on call_tool:   *)
(* a finished request whose advisory call returned, rerun on the same       *)
(* environment, data, arguments and driver behaviour with any other         *)
(* returned advisory string, executes the same statement, takes the same    *)
(* branch, commits or not alike, does the same I/O in the same order,       *)
(* leaves the same committed data and gives the same response.             *)

\* the behaviours of the service under which query_claude returns a string
Advised == {h \in HttpOutcomes : query_claude(<<>>, h).exc = NoExc}

\* a handler run without the advisory string it logged
Observable(r) == [r EXCEPT !.advice = ""]

C10_AdvisoryObservational ==
    (req.handler = "call_tool" /\ Has("advisory")
        /\ ~(res.status = "raised" /\ res.exc.type \in AdvisoryExceptions)) =>
        \A h \in Advised :
            Observable(call_tool(env, res.db0, req.arguments, h, res.fault))
            = Observable(res)

\* the service answered 500 and the DELETE was carried out and committed
C10_Witness ==
    /\ req.handler = "call_tool"
    /\ res.advice = "Error: 500 - Internal Server Error"
    /\ res.branch = "Other"
    /\ res.committed
    /\ db # res.db0

====
